---- MODULE Spec2Model ----
(***************************************************************************)
(* Model of the freee OAuth credential manager of src/main.py:             *)
(* issue_access_token (GET /oauth/freee/access_token), seed_token          *)
(* (POST /oauth/freee/seed), the oauth_token row they share, and the       *)
(* external token issuer.                                                  *)
(*                                                                         *)
(* The database is PostgreSQL (ON CONFLICT / NOW() in the SQL) at its      *)
(* default READ COMMITTED level: a plain SELECT takes no lock and sees the  *)
(* last committed row, an upsert takes the row lock and keeps it until the *)
(* transaction ends.  Every request runs on a connection of its own.       *)
(*                                                                         *)
(* A step of a request is one await of the handler together with the       *)
(* synchronous code that follows it.  The column updated_at (NOW() of the   *)
(* write, never read by the code) is left out of the row.                  *)
(***************************************************************************)
EXTENDS Integers, FiniteSets, Sequences, TLC

\* ---------------------------------------------------------------- bounds
NumCallers == 2
MaxBreaks == 2
MaxPosts == 3
MaxTokens == 2
MaxTime == 21541

\* ------------------------------------------------------ program constants
SKEW == 60
DefaultExpiresIn == 21600
RequestTimeout == 15

\* ------------------------------------------------------------ input sets
Callers == 1..NumCallers
NoVal == -1
\* instants of the clock: all of them, and the few used with concurrent requests
Instants == {t \in {0, 1, 21479, 21480, 21539, 21540, 21541, MaxTime} : t <= MaxTime}
EndInstants == {0, MaxTime}
CoarseInstants == {t \in {0, 1, MaxTime} : t <= MaxTime}
\* expires_in of an issuer response (NoVal: omitted)
ExpiresIn == {NoVal, 30, 100, 21600}
LongExpiresIn == {NoVal, 21600}
\* token_type and scope of an issuer response ("null": omitted)
Metas == {<<"null", "null">>, <<"bearer", "read">>}
BearerOnly == {<<"bearer", "read">>}
\* expires_at of a seed payload: an ISO timestamp or a number of seconds
SeedExp == {<<"abs", 30>>, <<"abs", 21600>>, <<"rel", 21600>>}
CoarseSeedExp == {<<"abs", 30>>, <<"rel", 21600>>}
Headers == {"none", "key", "bad"}
NotPassed == "rejected"
\* issue_code, line 274: a code is valid for ten minutes
CodeLifetime == 600
\* employees, codes of secrets.randbelow, LINE users, instants around the
\* expiry of a code issued at 0
Employees == {1, 2}
Codes == {"000042"}
Users == {"Ua", "Ub"}
Pairs == Employees \X Codes
LiffInstants == {0, CodeLifetime, CodeLifetime + 1}
NoCode == [exp |-> NoVal, used |-> FALSE, binds |-> 0, oks |-> 0]
NoUser == "null"
\* seq of the break rows (enumerate(p.breaks, start=1)), numbers of the
\* post_shift requests
Seqs == 1..MaxBreaks
PostIds == 1..MaxPosts
NoPost == [pc |-> "idle", id |-> 0, hasWork |-> FALSE, n |-> 0,
           snapB |-> {}, snapW |-> 0, delB |-> {}, delW |-> 0,
           insW |-> FALSE, insB |-> FALSE, res |-> "none"]
NoBind == [pc |-> "idle", e |-> 0, k |-> "", u |-> NoUser, res |-> "none"]
\* the index of seed_token requests in passed
Operator == 0
IssuerFailures == {"non200", "timeout", "no_access_token"}

\* The absent row (fetch_one returned None).  iat and life are history
\* fields: the instant the token was obtained and its reported lifetime
\* (0 when seeded).
NoRow == [at |-> NoVal, rt |-> NoVal, exp |-> NoVal, typ |-> "null", scope |-> "null",
          iat |-> NoVal, life |-> NoVal]
NoResult == [kind |-> "none", at |-> NoVal, exp |-> NoVal]

VARIABLES
    store,        \* the committed oauth_token row of provider 'freee', or NoRow
    lockHolder,   \* the request holding the row lock (uncommitted upsert), or 0
    connected,    \* database.is_connected
    ddl_done,     \* app.state.ddl_done
    cfgSecret,    \* INTERNAL_SECRET
    now,          \* the UTC clock
    issuerRt,     \* the refresh token the issuer currently honours
    nextTok,      \* the next fresh token value of the issuer
    pc,           \* position of each request
    rt,           \* the argument rt of _refresh_with_freee: row["refresh_token"] of the re-read
    sent,         \* the instant the refresh request was sent
    resp,         \* refresh_token of the issuer response, NoVal when omitted (history)
    pending,      \* the record computed by _refresh_with_freee / written in the open transaction
    result,       \* the response of each request
    seen,         \* access_token of the row of the first read (history)
    nIssuer,      \* issuer calls made by the request (history)
    nWrite,       \* upserts committed by the request (history)
    onboarding_code, \* table onboarding_code: the row of each (employee_id, code), or NoCode
    line_binding,    \* table line_binding: line_user_id of each employee_id, or NoUser
    bind,            \* each bind_from_liff request: position, payload, response
    WORK_TBL,        \* committed row of the month's work table for the one key
                     \* (id, work_date): the request that wrote it, or 0
    BREAK_TBL,       \* committed rows of the month's break table for the key:
                     \* the request that wrote the row of each seq, or 0
    post,            \* each post_shift request: position, payload, the rows its
                     \* open transaction deleted and inserted, response
    nextPost,        \* number of the next post_shift request (history)
    committed,       \* the post_shift requests that committed (history)
    passed        \* the X-Internal-Secret header with which the request, or the
                  \* last seed_token request (at Operator), passed the secret
                  \* check; NotPassed when it did not reach or pass it (history)

vars == <<store, lockHolder, connected, ddl_done, cfgSecret, now, issuerRt, nextTok,
          pc, rt, sent, resp, pending, result, seen, nIssuer, nWrite, passed,
          onboarding_code, line_binding, bind,
          WORK_TBL, BREAK_TBL, post, nextPost, committed>>

dbvars == <<connected, ddl_done>>
issuervars == <<issuerRt, nextTok>>
locals == <<rt, sent, resp, pending>>
history == <<seen, nIssuer, nWrite, passed>>
\* the credential manager but the database connection and the clock
oauthvars == <<store, lockHolder, cfgSecret, issuervars, pc, locals, result, history>>
\* the onboarding and binding endpoints
liffvars == <<onboarding_code, line_binding, bind>>
\* the shift endpoint
shiftvars == <<WORK_TBL, BREAK_TBL, post, nextPost, committed>>
appvars == <<liffvars, shiftvars>>

\* the comparison of the expiry check turned round
Fresh_Flipped(r, t) == r.exp < t + SKEW

\* row["expires_at"] and row["expires_at"] > now + SKEW
Fresh(r, t) == r.exp > t + SKEW

\* j.get("expires_in", 21600)
Lifetime(ei) == IF ei = NoVal THEN DefaultExpiresIn ELSE ei

\* the expiry of a refreshed token without the safety margin
RefreshExpiry_NoSkew(t, ei) == t + Lifetime(ei)

\* exp = utcnow() + timedelta(seconds=expires_in) - SKEW
RefreshExpiry(t, ei) == t + Lifetime(ei) - SKEW

\* the refresh token to store, with the rotated one dropped, and with the
\* default of the lookup dropped
RefreshTokenToStore_KeepOld(respRt, oldRt) == oldRt

RefreshTokenToStore_NoDefault(respRt, oldRt) == respRt

\* j.get("refresh_token", rt)
RefreshTokenToStore(respRt, oldRt) == IF respRt = NoVal THEN oldRt ELSE respRt

\* x_internal_secret != INTERNAL_SECRET
Forbidden(hdr) == hdr # cfgSecret

InitWith(secrets) ==
    /\ store = NoRow
    /\ lockHolder = 0
    /\ connected = FALSE
    /\ ddl_done = FALSE
    /\ cfgSecret \in secrets
    /\ now = 0
    /\ issuerRt = NoVal
    /\ nextTok = 0
    /\ pc = [c \in Callers |-> "idle"]
    /\ rt = [c \in Callers |-> NoVal]
    /\ sent = [c \in Callers |-> NoVal]
    /\ resp = [c \in Callers |-> NoVal]
    /\ pending = [c \in Callers |-> NoRow]
    /\ result = [c \in Callers |-> NoResult]
    /\ seen = [c \in Callers |-> NoVal]
    /\ nIssuer = [c \in Callers |-> 0]
    /\ nWrite = [c \in Callers |-> 0]
    /\ passed = [c \in Callers \cup {Operator} |-> NotPassed]
    /\ onboarding_code = [p \in Pairs |-> NoCode]
    /\ line_binding = [e \in Employees |-> NoUser]
    /\ bind = [c \in Callers |-> NoBind]
    /\ WORK_TBL = 0
    /\ BREAK_TBL = [s \in Seqs |-> 0]
    /\ post = [c \in Callers |-> NoPost]
    /\ nextPost = 1
    /\ committed = {}

Init == InitWith({"key"})

\* The clock moves to a later instant.
Tick(instants) ==
    /\ \E t \in instants : t > now /\ now' = t
    /\ UNCHANGED <<store, lockHolder, dbvars, cfgSecret, appvars, issuervars,
                   pc, locals, result, history>>

\* ensure_db_ready: connect on first use (503 when the database is not
\* reachable), run the DDL once.
DbReady(ok) ==
    IF connected
    THEN ok /\ ddl_done' = TRUE /\ connected' = connected
    ELSE IF ok THEN connected' = TRUE /\ ddl_done' = TRUE
               ELSE UNCHANGED dbvars

\* The request ends with a response; its local variables are gone.
Done(c, kind, at, exp) ==
    /\ pc' = [pc EXCEPT ![c] = "done"]
    /\ result' = [result EXCEPT ![c] = [kind |-> kind, at |-> at, exp |-> exp]]
    /\ rt' = [rt EXCEPT ![c] = NoVal]
    /\ sent' = [sent EXCEPT ![c] = NoVal]
    /\ resp' = [resp EXCEPT ![c] = NoVal]
    /\ pending' = [pending EXCEPT ![c] = NoRow]

\* No request is between its first read and its response.
AllQuiet == \A c \in Callers : pc[c] \in {"idle", "done"}

\* the first read without the check for an absent row: row["expires_at"]
\* raises on None
FirstRead_NoAbsentCheck(c) ==
    /\ pc[c] \in {"idle", "done"}
    /\ \E ok \in BOOLEAN, hdr \in Headers :
        /\ DbReady(ok)
        /\ IF ~ok
           THEN /\ Done(c, "db_not_ready", NoVal, NoVal)
                /\ seen' = [seen EXCEPT ![c] = NoVal]
                /\ passed' = [passed EXCEPT ![c] = NotPassed]
           ELSE IF Forbidden(hdr)
           THEN /\ Done(c, "forbidden", NoVal, NoVal)
                /\ seen' = [seen EXCEPT ![c] = NoVal]
                /\ passed' = [passed EXCEPT ![c] = NotPassed]
           ELSE /\ seen' = [seen EXCEPT ![c] = store.at]
                /\ passed' = [passed EXCEPT ![c] = hdr]
                /\ IF store = NoRow THEN Done(c, "internal_error", NoVal, NoVal)
                   ELSE IF Fresh(store, now) THEN Done(c, "ok_fast", store.at, store.exp)
                   ELSE /\ pc' = [pc EXCEPT ![c] = "stale"]
                        /\ result' = [result EXCEPT ![c] = NoResult]
                        /\ UNCHANGED locals
    /\ nIssuer' = [nIssuer EXCEPT ![c] = 0]
    /\ nWrite' = [nWrite EXCEPT ![c] = 0]
    /\ UNCHANGED <<store, lockHolder, cfgSecret, appvars, now, issuervars>>

\* issue_access_token, lines 381-391, on a worker that is free (its last
\* response, if any, stays in result until here): ensure_db_ready, the
\* secret check, the first read, 404 when the row is absent, the fast path.
\* The row of the first read is not used after the check.
FirstRead(c) ==
    /\ pc[c] \in {"idle", "done"}
    /\ \E ok \in BOOLEAN, hdr \in Headers :
        /\ DbReady(ok)
        /\ IF ~ok
           THEN /\ Done(c, "db_not_ready", NoVal, NoVal)
                /\ seen' = [seen EXCEPT ![c] = NoVal]
                /\ passed' = [passed EXCEPT ![c] = NotPassed]
           ELSE IF Forbidden(hdr)
           THEN /\ Done(c, "forbidden", NoVal, NoVal)
                /\ seen' = [seen EXCEPT ![c] = NoVal]
                /\ passed' = [passed EXCEPT ![c] = NotPassed]
           ELSE /\ seen' = [seen EXCEPT ![c] = store.at]
                /\ passed' = [passed EXCEPT ![c] = hdr]
                /\ IF store = NoRow THEN Done(c, "seed_required", NoVal, NoVal)
                   ELSE IF Fresh(store, now) THEN Done(c, "ok_fast", store.at, store.exp)
                   ELSE /\ pc' = [pc EXCEPT ![c] = "stale"]
                        /\ result' = [result EXCEPT ![c] = NoResult]
                        /\ UNCHANGED locals
    /\ nIssuer' = [nIssuer EXCEPT ![c] = 0]
    /\ nWrite' = [nWrite EXCEPT ![c] = 0]
    /\ UNCHANGED <<store, lockHolder, cfgSecret, appvars, now, issuervars>>

\* the transaction without the second check: every stale first read
\* sends a refresh request
ReRead_NoRecheck(c) ==
    /\ pc[c] = "stale"
    /\ pc' = [pc EXCEPT ![c] = "awaiting"]
    /\ rt' = [rt EXCEPT ![c] = store.rt]
    /\ sent' = [sent EXCEPT ![c] = now]
    /\ nIssuer' = [nIssuer EXCEPT ![c] = @ + 1]
    /\ UNCHANGED <<resp, pending, result>>
    /\ UNCHANGED <<store, lockHolder, dbvars, cfgSecret, appvars, now, issuervars, seen, nWrite, passed>>

\* issue_access_token, lines 394-398: open the transaction, read again,
\* return the row when it is fresh, else send the refresh request.
\* (A row deleted in between would make row["expires_at"] raise; nothing
\* deletes the row.)
ReRead(c) ==
    /\ pc[c] = "stale"
    /\ IF Fresh(store, now)
       THEN /\ Done(c, "ok_reread", store.at, store.exp)
            /\ UNCHANGED nIssuer
       ELSE /\ pc' = [pc EXCEPT ![c] = "awaiting"]
            /\ rt' = [rt EXCEPT ![c] = store.rt]
            /\ sent' = [sent EXCEPT ![c] = now]
            /\ nIssuer' = [nIssuer EXCEPT ![c] = @ + 1]
            /\ UNCHANGED <<resp, pending, result>>
    /\ UNCHANGED <<store, lockHolder, dbvars, cfgSecret, appvars, now, issuervars, seen, nWrite, passed>>

\* _refresh_with_freee, lines 361-377, a 200 response within the timeout.
\* The issuer honours the refresh token it issued last; it mints an access
\* token and, when it rotates, a refresh token that replaces the honoured one.
IssuerSuccess(c, rotates, lifetimes, metas) ==
    /\ pc[c] = "awaiting"
    /\ now <= sent[c] + RequestTimeout
    /\ rt[c] = issuerRt
    /\ nextTok <= MaxTokens
    /\ \E rot \in rotates, ei \in lifetimes, m \in metas :
        LET respRt == IF rot THEN nextTok ELSE NoVal IN
        /\ pending' = [pending EXCEPT ![c] =
              [at |-> nextTok, rt |-> RefreshTokenToStore(respRt, rt[c]),
               exp |-> RefreshExpiry(now, ei), typ |-> m[1], scope |-> m[2],
               iat |-> now, life |-> Lifetime(ei)]]
        /\ resp' = [resp EXCEPT ![c] = respRt]
        /\ issuerRt' = IF rot THEN nextTok ELSE issuerRt
    /\ nextTok' = nextTok + 1
    /\ pc' = [pc EXCEPT ![c] = "save"]
    /\ UNCHANGED <<store, lockHolder, dbvars, cfgSecret, appvars, now, rt, sent, result, history>>

\* a failed refresh that also removes the credential it could not renew
IssuerFailure_Discarding(c) ==
    /\ pc[c] = "awaiting"
    /\ \E f \in IssuerFailures :
        Done(c, IF f = "non200" THEN "refresh_failed" ELSE "internal_error", NoVal, NoVal)
    /\ store' = NoRow
    /\ UNCHANGED <<lockHolder, dbvars, cfgSecret, appvars, now, issuervars, history>>

\* _refresh_with_freee fails: a non-200 status (HTTPException 502), a
\* timeout of the request, or a 200 body without access_token (KeyError).
\* The exception leaves the transaction block, which rolls back.  The
\* issuer's state stays as it was.
IssuerFailure(c) ==
    /\ pc[c] = "awaiting"
    /\ \E f \in IssuerFailures :
        Done(c, IF f = "non200" THEN "refresh_failed" ELSE "internal_error", NoVal, NoVal)
    /\ UNCHANGED <<store, lockHolder, dbvars, cfgSecret, appvars, now, issuervars, history>>

\* _save_freee_row inside the transaction: the upsert takes the row lock
\* and waits while another transaction holds it.
Save(c) ==
    /\ pc[c] = "save"
    /\ lockHolder = 0
    /\ lockHolder' = c
    /\ pc' = [pc EXCEPT ![c] = "commit"]
    /\ UNCHANGED <<store, dbvars, cfgSecret, appvars, now, issuervars, locals, result, history>>

\* the write made visible without ending the transaction: the row lock
\* is never released
Commit_KeepingLock(c) ==
    /\ pc[c] = "commit"
    /\ lockHolder = c
    /\ store' = pending[c]
    /\ lockHolder' = c
    /\ nWrite' = [nWrite EXCEPT ![c] = @ + 1]
    /\ Done(c, "ok_refresh", pending[c].at, pending[c].exp)
    /\ UNCHANGED <<dbvars, cfgSecret, appvars, now, issuervars, seen, nIssuer, passed>>

\* issue_access_token, line 400: leaving the transaction block commits the
\* upsert; the response carries the new token.
Commit(c) ==
    /\ pc[c] = "commit"
    /\ lockHolder = c
    /\ store' = pending[c]
    /\ lockHolder' = 0
    /\ nWrite' = [nWrite EXCEPT ![c] = @ + 1]
    /\ Done(c, "ok_refresh", pending[c].at, pending[c].exp)
    /\ UNCHANGED <<dbvars, cfgSecret, appvars, now, issuervars, seen, nIssuer, passed>>

\* the seeded expiry with the margin taken off at write time, as the
\* refresh path does
SeedExpiry_WithSkew(e, t) == (IF e[1] = "rel" THEN t + e[2] ELSE e[2]) - SKEW

\* seed_token, lines 411-413: a number is a lifetime from now, anything
\* else an absolute timestamp; no SKEW is subtracted.
SeedExpiry(e, t) == IF e[1] = "rel" THEN t + e[2] ELSE e[2]

\* seed_token: the operator obtained a new grant from the issuer and posts
\* it.  The upsert runs in autocommit and waits for the row lock.
SeedToken(exps) ==
    /\ \E ok \in BOOLEAN, hdr \in Headers, e \in exps :
        /\ DbReady(ok)
        /\ IF ok /\ ~Forbidden(hdr)
           THEN /\ lockHolder = 0
                /\ nextTok <= MaxTokens
                /\ store' = [at |-> nextTok, rt |-> nextTok, exp |-> SeedExpiry(e, now),
                             typ |-> "null", scope |-> "null", iat |-> now, life |-> 0]
                /\ issuerRt' = nextTok
                /\ nextTok' = nextTok + 1
                /\ passed' = [passed EXCEPT ![Operator] = hdr]
           ELSE UNCHANGED <<store, issuerRt, nextTok, passed>>
    /\ UNCHANGED <<lockHolder, cfgSecret, appvars, now, pc, locals, result, seen, nIssuer, nWrite>>

\* The one-time seeding of spec.md section 3: the record is created once.
SeedOnce == store = NoRow /\ SeedToken(CoarseSeedExp)

\* Seeding between two requests of the single worker.
SeedQuiet == AllQuiet /\ SeedToken(SeedExp)

\* Concurrent requests; the record is seeded once.
Next ==
    \/ Tick(CoarseInstants)
    \/ SeedOnce
    \/ \E c \in Callers : FirstRead(c)
    \/ \E c \in Callers : ReRead(c)
    \/ \E c \in Callers : IssuerSuccess(c, BOOLEAN, LongExpiresIn, BearerOnly)
    \/ \E c \in Callers : IssuerFailure(c)
    \/ \E c \in Callers : Save(c)
    \/ \E c \in Callers : Commit(c)

Spec == Init /\ [][Next]_vars

\* Fair scheduling of the requests in flight: the event loop resumes every
\* coroutine that can run, the issuer call ends with an answer or with the
\* httpx timeout of line 361, and the database grants the row lock to every
\* waiter in turn and commits.
Fairness ==
    \A c \in Callers :
        /\ WF_vars(ReRead(c))
        /\ WF_vars(IssuerSuccess(c, {FALSE}, {DefaultExpiresIn}, BearerOnly) \/ IssuerFailure(c))
        /\ WF_vars(Save(c))
        /\ WF_vars(Commit(c))

\* Concurrent requests against an issuer that keeps the refresh token, so
\* that every concurrent refresh reaches the row lock.
NextFair ==
    \/ Tick(EndInstants)
    \/ SeedOnce
    \/ \E c \in Callers : FirstRead(c)
    \/ \E c \in Callers : ReRead(c)
    \/ \E c \in Callers : IssuerSuccess(c, {FALSE}, {DefaultExpiresIn}, BearerOnly)
    \/ \E c \in Callers : IssuerFailure(c)
    \/ \E c \in Callers : Save(c)
    \/ \E c \in Callers : Commit(c)

SpecFair == Init /\ [][NextFair]_vars /\ Fairness

\* The same requests with INTERNAL_API_KEY set or unset (os.getenv gives
\* None).
InitAnyKey == InitWith({"none", "key"})

SpecAnyKey == InitAnyKey /\ [][Next]_vars

\* Concurrent requests; the operator may seed again at any time.
NextReseed ==
    \/ Tick(CoarseInstants)
    \/ SeedToken(CoarseSeedExp)
    \/ \E c \in Callers : FirstRead(c)
    \/ \E c \in Callers : ReRead(c)
    \/ \E c \in Callers : IssuerSuccess(c, BOOLEAN, LongExpiresIn, BearerOnly)
    \/ \E c \in Callers : IssuerFailure(c)
    \/ \E c \in Callers : Save(c)
    \/ \E c \in Callers : Commit(c)

SpecReseed == Init /\ [][NextReseed]_vars

\* Concurrent requests, the record is seeded once, the issuer rotates the
\* refresh token on every successful refresh.
NextRot ==
    \/ Tick(CoarseInstants)
    \/ SeedOnce
    \/ \E c \in Callers : FirstRead(c)
    \/ \E c \in Callers : ReRead(c)
    \/ \E c \in Callers : IssuerSuccess(c, {TRUE}, LongExpiresIn, BearerOnly)
    \/ \E c \in Callers : IssuerFailure(c)
    \/ \E c \in Callers : Save(c)
    \/ \E c \in Callers : Commit(c)

SpecRot == Init /\ [][NextRot]_vars

\* One worker, one request after the other, every instant and every input;
\* the operator may seed again between two requests.
Solo == CHOOSE c \in Callers : \A d \in Callers : c <= d

NextSolo ==
    \/ Tick(Instants)
    \/ SeedQuiet
    \/ FirstRead(Solo)
    \/ ReRead(Solo)
    \/ IssuerSuccess(Solo, BOOLEAN, ExpiresIn, Metas)
    \/ IssuerFailure(Solo)
    \/ Save(Solo)
    \/ Commit(Solo)

SpecSolo == Init /\ [][NextSolo]_vars

\* ------------------------------------------------ onboarding and binding
\* issue_code, lines 268-279: a random code for the employee, valid for
\* CodeLifetime; the plain INSERT fails on the primary key (500) when the
\* pair exists.
IssueCode ==
    /\ \E ok \in BOOLEAN, e \in Employees, k \in Codes :
        /\ DbReady(ok)
        /\ IF ok /\ onboarding_code[<<e, k>>] = NoCode
           THEN onboarding_code' = [onboarding_code EXCEPT ![<<e, k>>] =
                    [exp |-> now + CodeLifetime, used |-> FALSE, binds |-> 0, oks |-> 0]]
           ELSE UNCHANGED onboarding_code
    /\ UNCHANGED <<oauthvars, shiftvars, now, line_binding, bind>>

\* the response of a bind_from_liff request
BindDone(c, res) == bind' = [bind EXCEPT ![c].pc = "done", ![c].res = res]

\* bind_from_liff, lines 283-296: ensure_db_ready, the SELECT of the code
\* row and the three checks on it.
BindCode(c) ==
    /\ bind[c].pc \in {"idle", "done"}
    /\ \E ok \in BOOLEAN, e \in Employees, k \in Codes, u \in Users :
        /\ DbReady(ok)
        /\ LET row == onboarding_code[<<e, k>>]
               res == IF ~ok THEN "db_not_ready"
                      ELSE IF row = NoCode THEN "invalid code"
                      ELSE IF row.used THEN "code already used"
                      ELSE IF row.exp < now THEN "code expired"
                      ELSE "none"
           IN bind' = [bind EXCEPT ![c] =
                  [pc |-> IF res = "none" THEN "own" ELSE "done",
                   e |-> e, k |-> k, u |-> u, res |-> res]]
    /\ UNCHANGED <<oauthvars, shiftvars, now, onboarding_code, line_binding>>

\* lines 298-304: the LINE user must not be linked to another employee.
BindOwn(c) ==
    /\ bind[c].pc = "own"
    /\ IF \E e \in Employees : e # bind[c].e /\ line_binding[e] = bind[c].u
       THEN BindDone(c, "already linked")
       ELSE bind' = [bind EXCEPT ![c].pc = "upsert"]
    /\ UNCHANGED <<oauthvars, shiftvars, dbvars, now, onboarding_code, line_binding>>

\* lines 306-312: the upsert on employee_id; line_user_id is UNIQUE, so a
\* user linked to another employee since the check makes the statement
\* fail (500).  binds counts the upserts made with the code (history).
BindUpsert(c) ==
    /\ bind[c].pc = "upsert"
    /\ IF \E e \in Employees : e # bind[c].e /\ line_binding[e] = bind[c].u
       THEN /\ BindDone(c, "internal_error")
            /\ UNCHANGED <<onboarding_code, line_binding>>
       ELSE /\ line_binding' = [line_binding EXCEPT ![bind[c].e] = bind[c].u]
            /\ onboarding_code' = [onboarding_code EXCEPT ![<<bind[c].e, bind[c].k>>].binds = @ + 1]
            /\ bind' = [bind EXCEPT ![c].pc = "consume"]
    /\ UNCHANGED <<oauthvars, shiftvars, dbvars, now>>

\* lines 314-319: the code is marked used and the request answers ok.
\* oks counts the requests answered ok with the code (history).
BindConsume(c) ==
    /\ bind[c].pc = "consume"
    /\ onboarding_code' = [onboarding_code EXCEPT ![<<bind[c].e, bind[c].k>>].used = TRUE,
                                                  ![<<bind[c].e, bind[c].k>>].oks = @ + 1]
    /\ BindDone(c, "ok")
    /\ UNCHANGED <<oauthvars, shiftvars, dbvars, now, line_binding>>

\* Concurrent bind_from_liff requests; each statement runs in autocommit.
NextLiff ==
    \/ Tick(LiffInstants)
    \/ IssueCode
    \/ \E c \in Callers : BindCode(c)
    \/ \E c \in Callers : BindOwn(c)
    \/ \E c \in Callers : BindUpsert(c)
    \/ \E c \in Callers : BindConsume(c)

SpecLiff == Init /\ [][NextLiff]_vars

\* ------------------------------------------------------------ post_shift
\* PostgreSQL at READ COMMITTED, for the rows of one (id, work_date): a
\* statement sees the rows committed when it starts; a DELETE locks the rows
\* it deletes until its transaction ends, waits for a row another open
\* transaction has deleted and skips it once that transaction committed; an
\* INSERT waits for an open transaction that inserted or deleted a row with
\* its key and fails on the primary key when a committed row has it.

\* the rows of the break table a statement starting now sees
VisibleBreaks == {<<q, BREAK_TBL[q]>> : q \in {x \in Seqs : BREAK_TBL[x] # 0}}

\* another open transaction has deleted the break row b / the work row w
BreakLocked(c, b) == \E d \in Callers \ {c} : b \in post[d].delB
WorkLocked(c, w) == w # 0 /\ \E d \in Callers \ {c} : post[d].delW = w

\* the step after the work table is dealt with
AfterWork(c) == IF post[c].n > 0 THEN "ins_breaks" ELSE "commit"

\* the transaction ends: rollback with the exception turned into 500, or the
\* response after the commit
PostEnd(c, res) == post' = [post EXCEPT ![c] = [NoPost EXCEPT !.pc = "done", !.res = res]]

\* post_shift, lines 170-178: ensure_db_ready (503 outside the try),
\* ensure_month_tables and BEGIN.  The payload
\* has a work row when start_work and end_work are both given, and n breaks.
PostBegin(c) ==
    /\ post[c].pc \in {"idle", "done"}
    /\ nextPost <= MaxPosts
    /\ \E ok \in BOOLEAN, hasWork \in BOOLEAN, n \in 0..MaxBreaks :
        /\ DbReady(ok)
        /\ IF ~ok
           THEN /\ PostEnd(c, "db_not_ready")
                /\ UNCHANGED nextPost
           ELSE /\ post' = [post EXCEPT ![c] = [NoPost EXCEPT !.pc = "del_breaks", !.id = nextPost,
                                !.hasWork = hasWork, !.n = n]]
                /\ nextPost' = nextPost + 1
    /\ UNCHANGED <<oauthvars, liffvars, now, WORK_TBL, BREAK_TBL, committed>>

\* statement 1, lines 175-178: DELETE of the break rows of the key.  It
\* deletes the rows it sees, or waits when another open transaction has
\* deleted one of them.
PostDelBreaks(c) ==
    /\ post[c].pc = "del_breaks"
    /\ IF \E b \in VisibleBreaks : BreakLocked(c, b)
       THEN post' = [post EXCEPT ![c].pc = "wait_breaks", ![c].snapB = VisibleBreaks]
       ELSE post' = [post EXCEPT ![c].pc = "del_work", ![c].delB = VisibleBreaks]
    /\ UNCHANGED <<oauthvars, liffvars, dbvars, now, WORK_TBL, BREAK_TBL, nextPost, committed>>

\* statement 1 after the wait: of the rows it saw when it started it
\* deletes those that still exist
PostDelBreaksResume(c) ==
    /\ post[c].pc = "wait_breaks"
    /\ \A b \in post[c].snapB : ~BreakLocked(c, b)
    /\ post' = [post EXCEPT ![c].pc = "del_work", ![c].snapB = {},
                            ![c].delB = post[c].snapB \cap VisibleBreaks]
    /\ UNCHANGED <<oauthvars, liffvars, dbvars, now, WORK_TBL, BREAK_TBL, nextPost, committed>>

\* statement 2, lines 180-183: DELETE of the work row of the key
PostDelWork(c) ==
    /\ post[c].pc = "del_work"
    /\ IF WorkLocked(c, WORK_TBL)
       THEN post' = [post EXCEPT ![c].pc = "wait_work", ![c].snapW = WORK_TBL]
       ELSE post' = [post EXCEPT ![c].pc = IF post[c].hasWork THEN "ins_work" ELSE AfterWork(c),
                                 ![c].delW = WORK_TBL]
    /\ UNCHANGED <<oauthvars, liffvars, dbvars, now, WORK_TBL, BREAK_TBL, nextPost, committed>>

\* statement 2 after the wait
PostDelWorkResume(c) ==
    /\ post[c].pc = "wait_work"
    /\ ~WorkLocked(c, post[c].snapW)
    /\ post' = [post EXCEPT ![c].pc = IF post[c].hasWork THEN "ins_work" ELSE AfterWork(c),
                            ![c].snapW = 0,
                            ![c].delW = IF WORK_TBL = post[c].snapW THEN post[c].snapW ELSE 0]
    /\ UNCHANGED <<oauthvars, liffvars, dbvars, now, WORK_TBL, BREAK_TBL, nextPost, committed>>

\* statement 3, lines 185-189: INSERT of the work row
PostInsWork(c) ==
    /\ post[c].pc = "ins_work"
    /\ ~WorkLocked(c, WORK_TBL)
    /\ \A d \in Callers \ {c} : ~post[d].insW
    /\ IF WORK_TBL # 0 /\ post[c].delW # WORK_TBL
       THEN PostEnd(c, "internal_error")
       ELSE post' = [post EXCEPT ![c].pc = AfterWork(c), ![c].insW = TRUE]
    /\ UNCHANGED <<oauthvars, liffvars, dbvars, now, WORK_TBL, BREAK_TBL, nextPost, committed>>

\* statement 4, lines 191-200: execute_many INSERT of the breaks, seq 1..n
PostInsBreaks(c) ==
    /\ post[c].pc = "ins_breaks"
    /\ \A q \in 1..post[c].n :
        /\ ~BreakLocked(c, <<q, BREAK_TBL[q]>>)
        /\ \A d \in Callers \ {c} : ~(post[d].insB /\ q <= post[d].n)
    /\ IF \E q \in 1..post[c].n : BREAK_TBL[q] # 0 /\ <<q, BREAK_TBL[q]>> \notin post[c].delB
       THEN PostEnd(c, "internal_error")
       ELSE post' = [post EXCEPT ![c].pc = "commit", ![c].insB = TRUE]
    /\ UNCHANGED <<oauthvars, liffvars, dbvars, now, WORK_TBL, BREAK_TBL, nextPost, committed>>

\* line 202: leaving the transaction block commits the deletes and inserts
PostCommit(c) ==
    /\ post[c].pc = "commit"
    /\ WORK_TBL' = IF post[c].insW THEN post[c].id
                   ELSE IF WORK_TBL # 0 /\ post[c].delW = WORK_TBL THEN 0
                   ELSE WORK_TBL
    /\ BREAK_TBL' = [q \in Seqs |->
                       IF post[c].insB /\ q <= post[c].n THEN post[c].id
                       ELSE IF <<q, BREAK_TBL[q]>> \in post[c].delB THEN 0
                       ELSE BREAK_TBL[q]]
    /\ committed' = committed \cup {[id |-> post[c].id, hasWork |-> post[c].hasWork, n |-> post[c].n]}
    /\ PostEnd(c, "ok")
    /\ UNCHANGED <<oauthvars, liffvars, dbvars, now, nextPost>>

\* Concurrent post_shift requests for one (employee_id, work_date).
NextShift ==
    \/ \E c \in Callers : PostBegin(c)
    \/ \E c \in Callers : PostDelBreaks(c)
    \/ \E c \in Callers : PostDelBreaksResume(c)
    \/ \E c \in Callers : PostDelWork(c)
    \/ \E c \in Callers : PostDelWorkResume(c)
    \/ \E c \in Callers : PostInsWork(c)
    \/ \E c \in Callers : PostInsBreaks(c)
    \/ \E c \in Callers : PostCommit(c)

SpecShift == Init /\ [][NextShift]_vars

TypeOK ==
    /\ lockHolder \in 0..NumCallers
    /\ now \in Instants \cup LiffInstants
    /\ bind \in [Callers -> [pc : {"idle", "own", "upsert", "consume", "done"},
                             e : Employees \cup {0}, k : Codes \cup {""},
                             u : Users \cup {NoUser},
                             res : {"none", "db_not_ready", "invalid code", "code already used",
                                    "code expired", "already linked", "internal_error", "ok"}]]
    /\ line_binding \in [Employees -> Users \cup {NoUser}]
    /\ WORK_TBL \in PostIds \cup {0}
    /\ BREAK_TBL \in [Seqs -> PostIds \cup {0}]
    /\ nextPost \in 1..(MaxPosts + 1)
    /\ \A c \in Callers : post[c].id \in PostIds \cup {0} /\ post[c].n \in 0..MaxBreaks
    /\ pc \in [Callers -> {"idle", "stale", "awaiting", "save", "commit", "done"}]
    /\ passed \in [Callers \cup {Operator} -> Headers \cup {NotPassed}]

\* ------------------------------------------------------------------ claims
\* requests whose refresh request is in flight, and requests between the
\* stale re-read and the commit
InFlight == {c \in Callers : pc[c] = "awaiting"}
Refreshing == {c \in Callers : pc[c] \in {"awaiting", "save", "commit"}}
\* kinds of a successful response of a request that found the row stale first
FromStale == {"ok_reread", "ok_refresh"}

\* C1: concurrent requests against one stale record invoke the issuer at
\* most once: never two refresh requests in flight, and never two requests
\* that both called the issuer with the refresh token of the same record.
C1_RaceCollapse ==
    /\ Cardinality(InFlight) <= 1
    /\ \A c, d \in Refreshing : c # d => rt[c] # rt[d]

\* C2: concurrent requests that started against the same stale record and
\* all returned a token (one that is still fresh) returned the same access
\* token, and it is the access token of the stored refreshed record.
C2_SameToken ==
    \A c, d \in Callers :
        ( /\ c # d
          /\ pc[c] = "done" /\ pc[d] = "done"
          /\ result[c].kind \in FromStale /\ result[d].kind \in FromStale
          /\ seen[c] = seen[d]
          /\ result[c].exp > now + SKEW /\ result[d].exp > now + SKEW )
        => /\ result[c].at = result[d].at
           /\ store.at = result[c].at

RefreshFails(c) ==
    /\ pc[c] = "awaiting"
    /\ pc'[c] = "done"

\* C4: when the issuer call of a request fails (non-200, timeout, no
\* access_token) the request ends in an error, has committed no write, and
\* the stored record and the row lock are left exactly as they were.
C4_FailedRefreshNonDestructive ==
    [][\A c \in Callers : RefreshFails(c) =>
          /\ result'[c].kind \in {"refresh_failed", "internal_error"}
          /\ store' = store
          /\ lockHolder' = lockHolder
          /\ lockHolder # c
          /\ nWrite'[c] = 0]_vars

\* C4 witness: a request ended in an error after its issuer call failed,
\* and the record it found is still the stored one.
C4_Witness ==
    \E c \in Callers :
        /\ pc[c] = "done"
        /\ result[c].kind \in {"refresh_failed", "internal_error"}
        /\ nIssuer[c] = 1
        /\ store.at = seen[c]

\* C5: a token refreshed at T with expires_in = 21600 is stored with
\* expires_at = T + 21600 - SKEW; a request at T + 21600 - SKEW - 1 takes the
\* fast path, a request at T + 21600 - SKEW + 1 goes to the refresh path.
C5_SkewBoundary ==
    [][\A c \in Callers :
          /\ (pc[c] = "awaiting" /\ pc'[c] = "save" /\ pending'[c].life = 21600)
                => pending'[c].exp = now + 21600 - SKEW
          /\ (pc[c] \in {"idle", "done"} /\ pc'[c] = "stale" /\ store.life = 21600)
                => now # store.iat + 21600 - SKEW - 1
          /\ (pc[c] \in {"idle", "done"} /\ result'[c] # result[c]
                /\ result'[c].kind = "ok_fast" /\ store.life = 21600)
                => now # store.iat + 21600 - SKEW + 1]_vars

\* C6: a refresh that commits stores the refresh token of the issuer
\* response when the response carries one (never the old one), and the
\* refresh token read from the record before the call when it carries none.
C6_RotationOnRefresh ==
    [][\A c \in Callers : (pc[c] = "commit" /\ pc'[c] = "done") =>
          /\ resp[c] = NoVal => store'.rt = rt[c]
          /\ resp[c] # NoVal => (store'.rt = resp[c] /\ store'.rt # rt[c])]_vars

\* C6 witnesses: a committed refresh that rotated, and (below) one that kept
\* the refresh token.
C6_Witness ==
    \E c \in Callers :
        /\ pc[c] = "done" /\ result[c].kind = "ok_refresh"
        /\ store.at = result[c].at
        /\ store.rt = store.at

C6_WitnessKept ==
    \E c \in Callers :
        /\ pc[c] = "done" /\ result[c].kind = "ok_refresh"
        /\ store.at = result[c].at
        /\ store.rt # store.at

\* C7: the expires_at of successive successful returns never decreases: a
\* request that returns a token returns an expires_at no older than the one
\* any request has returned before.
C7_ReturnedExpiryMonotone ==
    [][\A c, d \in Callers :
          ( /\ c # d
            /\ pc[c] # "done" /\ pc'[c] = "done"
            /\ result'[c].kind \in {"ok_fast", "ok_reread", "ok_refresh"}
            /\ pc[d] = "done"
            /\ result[d].kind \in {"ok_fast", "ok_reread", "ok_refresh"} )
          => result'[c].exp >= result[d].exp]_vars

\* a step of request c that is its authorised first read
AuthorisedFirstRead(c) ==
    /\ pc[c] \in {"idle", "done"}
    /\ (pc'[c] # pc[c] \/ result'[c] # result[c])
    /\ result'[c].kind \notin {"db_not_ready", "forbidden"}

\* C8: a request that finds the stored record with expires_at > now + SKEW
\* returns exactly the stored access token and expiry, changes neither the
\* record nor the issuer, and makes no issuer call and no write.
C8_FastPath ==
    [][\A c \in Callers : (AuthorisedFirstRead(c) /\ store.exp > now + SKEW) =>
          /\ pc'[c] = "done"
          /\ result'[c] = [kind |-> "ok_fast", at |-> store.at, exp |-> store.exp]
          /\ store' = store
          /\ lockHolder' = lockHolder
          /\ UNCHANGED issuervars
          /\ nIssuer'[c] = 0
          /\ nWrite'[c] = 0]_vars

\* C8 witness: two requests served the same stored token on the fast path.
C8_Witness ==
    \E c, d \in Callers :
        /\ c # d
        /\ pc[c] = "done" /\ pc[d] = "done"
        /\ result[c].kind = "ok_fast" /\ result[d] = result[c]
        /\ result[c].at = store.at
        /\ nIssuer[c] = 0 /\ nWrite[c] = 0

\* C9: a request made alone against a stale record makes exactly one issuer
\* call, with the stored refresh token; when the issuer answers, the token
\* and the expiry computed from the response are committed and returned.
C9_RefreshOnExpiry ==
    [][ /\ (pc[Solo] = "stale" /\ pc'[Solo] # "stale")
            => /\ pc'[Solo] = "awaiting"
               /\ nIssuer'[Solo] = 1
               /\ rt'[Solo] = store.rt
        /\ (pc[Solo] = "awaiting" /\ pc'[Solo] # "awaiting")
            => /\ nIssuer'[Solo] = 1
               /\ rt[Solo] = store.rt
               /\ pc'[Solo] = "save"
                    => /\ pending'[Solo].at = nextTok
                       /\ pending'[Solo].exp = now + pending'[Solo].life - SKEW
        /\ (pc[Solo] = "commit" /\ pc'[Solo] = "done")
            => /\ nIssuer'[Solo] = 1
               /\ nWrite'[Solo] = 1
               /\ store'.at = pending[Solo].at
               /\ store'.exp = pending[Solo].exp
               /\ result'[Solo] = [kind |-> "ok_refresh", at |-> store'.at,
                                   exp |-> store'.exp] ]_vars

\* C9 witness: the request has refreshed a record whose expires_at was in
\* the past, with one issuer call.
C9_Witness ==
    /\ pc[Solo] = "done"
    /\ result[Solo].kind = "ok_refresh"
    /\ nIssuer[Solo] = 1
    /\ store.at = result[Solo].at
    /\ store.iat = 21479

\* C10: an authorised request made while no record exists ends with 'seed
\* required', makes no issuer call and no write, and leaves the store
\* without a record; 'seed required' is answered in no other case.
C10_Unseeded ==
    [][\A c \in Callers :
          /\ (AuthorisedFirstRead(c) /\ store = NoRow)
                => /\ pc'[c] = "done"
                   /\ result'[c].kind = "seed_required"
                   /\ store' = NoRow
                   /\ UNCHANGED issuervars
                   /\ nIssuer'[c] = 0
                   /\ nWrite'[c] = 0
          /\ (result'[c].kind = "seed_required" /\ result[c].kind # "seed_required")
                => store = NoRow]_vars

\* C10 witness: a request was answered 'seed required' and there is no record.
C10_Witness ==
    \E c \in Callers :
        /\ pc[c] = "done"
        /\ result[c].kind = "seed_required"
        /\ store = NoRow
        /\ nIssuer[c] = 0

\* the instant the provider stops honouring the access token of a record:
\* the response instant plus the reported lifetime, or the seeded expiry
TrueExpiry(r) == IF r.life = 0 THEN r.exp ELSE r.iat + r.life

\* a step of request c that returns a token, and the record the token is from
ReturnsToken(c) ==
    /\ result'[c] # result[c]
    /\ result'[c].kind \in {"ok_fast", "ok_reread", "ok_refresh"}

ReturnedRecord(c) == IF pc[c] = "commit" THEN pending[c] ELSE store

\* C11: every successful return, for every issuer lifetime of at least one
\* second and every seeded expiry, gives an access token the provider honours
\* until after the time of return plus SKEW, and an expires_at after the time
\* of return.
C11_ReturnedTokenValid ==
    [][\A c \in Callers : ReturnsToken(c) =>
          /\ TrueExpiry(ReturnedRecord(c)) > now + SKEW
          /\ result'[c].exp > now]_vars

\* C12: once the record exists it is never deleted, and it is changed only
\* by the commit of a refresh: a seed_token request leaves it as it is.
C12_RecordLifecycle ==
    [][store # NoRow =>
          /\ store' # NoRow
          /\ store' # store => \E c \in Callers : pc[c] = "commit" /\ pc'[c] = "done"]_vars

\* C14: between the in-transaction re-read of one request and its commit
\* (or its failure) no other request re-reads or writes the record.
C14_CriticalSectionExclusive ==
    [][\A c, d \in Callers :
          (c # d /\ pc[c] \in {"awaiting", "save", "commit"} /\ pc'[c] = pc[c]) =>
              /\ ~(pc[d] = "stale" /\ pc'[d] # "stale")
              /\ ~(pc[d] = "commit" /\ pc'[d] = "done")]_vars

\* C15: a request whose first read was stale and whose re-read inside the
\* transaction finds expires_at > now + SKEW returns the re-read record's
\* access token and expiry, calls the issuer not at all and writes nothing.
C15_DoubleCheckShortCircuit ==
    [][\A c \in Callers :
          (pc[c] = "stale" /\ pc'[c] # "stale" /\ store.exp > now + SKEW) =>
              /\ pc'[c] = "done"
              /\ result'[c] = [kind |-> "ok_reread", at |-> store.at, exp |-> store.exp]
              /\ store' = store
              /\ lockHolder' = lockHolder
              /\ UNCHANGED issuervars
              /\ nIssuer'[c] = 0
              /\ nWrite'[c] = 0]_vars

\* C15 witness: a request was answered from its re-read, with the token
\* another request's refresh had stored meanwhile.
C15_Witness ==
    \E c \in Callers :
        /\ pc[c] = "done"
        /\ result[c] = [kind |-> "ok_reread", at |-> store.at, exp |-> store.exp]
        /\ seen[c] # store.at
        /\ store.life > 0
        /\ nIssuer[c] = 0 /\ nWrite[c] = 0

\* a step that seeds the record
SeedStep == store' # store /\ store' # NoRow /\ store'.life = 0

\* C16: seed_token stores now + L for a relative lifetime L and E for an
\* absolute timestamp E, with no SKEW taken off; a seeded record is served
\* on the fast path at every now < expires_at - SKEW and sends the request
\* to the issuer at every now >= expires_at - SKEW.
C16_SeedConvention ==
    [][/\ SeedStep =>
            \E e \in SeedExp :
                store'.exp = IF e[1] = "rel" THEN now + e[2] ELSE e[2]
       /\ \A c \in Callers :
            /\ (AuthorisedFirstRead(c) /\ store # NoRow /\ store.life = 0) =>
                  IF now < store.exp - SKEW
                  THEN /\ pc'[c] = "done"
                       /\ result'[c] = [kind |-> "ok_fast", at |-> store.at, exp |-> store.exp]
                  ELSE pc'[c] = "stale"
            /\ (pc[c] = "stale" /\ pc'[c] # "stale" /\ store.life = 0
                  /\ now >= store.exp - SKEW) =>
                  /\ pc'[c] = "awaiting"
                  /\ rt'[c] = store.rt]_vars

\* C16 witness: a record seeded with a relative lifetime at a later instant
\* was served on the fast path one second before expires_at - SKEW.
C16_Witness ==
    \E c \in Callers :
        /\ store.life = 0 /\ store.iat > 0
        /\ store.exp = store.iat + 21600
        /\ pc[c] = "done"
        /\ result[c] = [kind |-> "ok_fast", at |-> store.at, exp |-> store.exp]
        /\ now = store.exp - SKEW - 1

\* C16 witness, refresh side: a seeded record sent the request to the issuer
\* at exactly expires_at - SKEW.
C16_WitnessRefresh ==
    \E c \in Callers :
        /\ store.life = 0
        /\ pc[c] = "awaiting"
        /\ sent[c] = store.exp - SKEW

\* C13: under fair scheduling, with an issuer that answers or times out,
\* every request that went past its first read ends with a token or an
\* error; none waits for ever for another request's transaction or row lock.
C13_EveryCallCompletes ==
    \A c \in Callers : (pc[c] \in {"stale", "awaiting", "save", "commit"}) ~> (pc[c] = "done")

\* C13 witness: a request waits for the row lock while another request's
\* transaction holds it.
C13_Witness ==
    \E c, d \in Callers :
        /\ c # d
        /\ pc[c] = "save"
        /\ pc[d] = "commit"
        /\ lockHolder = d

\* C17: whatever INTERNAL_API_KEY is, also unset, a request to
\* issue_access_token or seed_token without X-Internal-Secret header, or with
\* a value other than the configured secret, is answered 'forbidden' and
\* reads, writes and refreshes nothing: every request that got past the
\* secret check carried a header, and the header was the configured secret.
\* (A request answered 503 by ensure_db_ready before the check counts as
\* rejected here.)
C17_SecretGate ==
    \A r \in Callers \cup {Operator} :
        passed[r] # NotPassed => (passed[r] # "none" /\ passed[r] = cfgSecret)

\* C18: an onboarding code is used once: of the bind_from_liff requests
\* presenting an issued (employee_id, code), however they interleave, at most
\* one is answered ok, and no other one changes line_binding.
C18_CodeSingleUse ==
    \A p \in Pairs : onboarding_code[p].oks <= 1 /\ onboarding_code[p].binds <= 1

\* the rows of the key are the ones request r asked for
RowsOf(r) ==
    /\ WORK_TBL = IF r.hasWork THEN r.id ELSE 0
    /\ \A q \in Seqs : BREAK_TBL[q] = IF q <= r.n THEN r.id ELSE 0

\* C19: post_shift replaces atomically: whatever post_shift requests for
\* one (employee_id, work_date) ran and however they interleaved, the month
\* tables hold for the key at most one work row and break rows seq = 1..n
\* without gaps, and these are exactly the rows of one single request that
\* committed (the claim names the last one); before the first commit, and
\* after requests that failed, the rows are as they were.
C19_AtomicReplace ==
    IF committed = {}
    THEN WORK_TBL = 0 /\ \A q \in Seqs : BREAK_TBL[q] = 0
    ELSE \E r \in committed : RowsOf(r)

====
